---- MODULE Spec2Model ----
(***************************************************************************)
(* geojson_to_shp: conversion of a GeoJSON FeatureCollection into a        *)
(* shapefile (.shp/.shx geometry sink, .dbf attribute sink).               *)
(*                                                                         *)
(* Two pipelines are modelled:                                             *)
(*   - the library writer, FeatureCollectionToShpWriter (src/src/lib.rs;   *)
(*     src/src/converter.rs holds the same code under another name);       *)
(*   - the binary entry point, main (src/src/main.rs).                     *)
(*                                                                         *)
(* A panic! and an Err returned through `?` both end the run: the model    *)
(* records them as pc = "failed" with the kind of failure in err.          *)
(* The sinks are modelled by what they accept: the dBase TableWriter       *)
(* walks the fields of its schema in order, looks each one up by name in   *)
(* the record map, and refuses a value whose type is not the field's.      *)
(* File-system failures of an otherwise accepted write are not modelled.   *)
(***************************************************************************)
EXTENDS Integers, Sequences, FiniteSets, TLC

\* ------------------------------------------------------------------ bounds
MaxFeatures == 2
MaxLineLen == 3

\* ------------------------------------------------------ input data (parsed)
\* serde_json::Value, narrowed to what the code matches on.
Num(n) == [kind |-> "Number", num |-> n, str |-> ""]
Str(s) == [kind |-> "String", num |-> 0, str |-> s]
Other(k) == [kind |-> k, num |-> 0, str |-> ""]

UnsupportedValueKinds == {"Array", "Object", "Bool", "Null"}
UnsupportedValues == {Other(k) : k \in UnsupportedValueKinds}

\* One entry of a feature's property map; a map is the sequence of its
\* entries in the map's iteration order, names unique.
Entry(n, v) == [name |-> n, value |-> v]
Props(entries) == [present |-> TRUE, entries |-> entries]
NoProps == [present |-> FALSE, entries |-> <<>>]

\* geojson::Value: the variant tag and its positions (a Point carries one).
UnsupportedGeometryKinds ==
    {"MultiPoint", "MultiLineString", "Polygon", "MultiPolygon", "GeometryCollection"}
Geom(t, coords) == [type |-> t, coords |-> coords]
NoGeometry == Geom("None", <<>>)

\* The i-th position of a path of distinct positions; every second one
\* carries a third coordinate.
Position(i) == IF i % 2 = 0 THEN <<2 * i, 2 * i + 1, 9>> ELSE <<2 * i, 2 * i + 1>>
Line(k) == Geom("LineString", [i \in 1..k |-> Position(i)])
BasePoint == Geom("Point", <<Position(1)>>)

Geometries ==
    {NoGeometry, BasePoint, Geom("Point", <<Position(2)>>)}
    \cup {Line(k) : k \in 0..MaxLineLen}
    \cup {Geom(t, <<>>) : t \in UnsupportedGeometryKinds}

LongName == "population_density"
BaseEntries == <<Entry("name", Str("a")), Entry("pop", Num(1))>>

PropertyMaps ==
    {Props(<<Entry("name", Str(s)), Entry("pop", Num(n))>>) : s \in {"a", "b"}, n \in {1, 2}}
    \cup {Props(<<Entry("pop", Num(2)), Entry("name", Str("b"))>>)}
    \cup {Props(<<Entry("name", v), Entry("pop", Num(1))>>) : v \in {Num(1)} \cup UnsupportedValues}
    \cup {Props(<<Entry("name", Str("a")), Entry("pop", v)>>) : v \in {Str("a"), Other("Null")}}
    \cup {Props(<<Entry("name", Str("a"))>>), Props(<<Entry("pop", Num(1))>>), Props(<<>>)}
    \cup {Props(Append(BaseEntries, Entry("id", v))) : v \in {Num(7), Str("x"), Other("Bool")}}
    \cup {Props(Append(BaseEntries, Entry(LongName, Num(3))))}
    \cup {NoProps}

Feature(g, p) == [geometry |-> g, properties |-> p]

Features ==
    {Feature(g, Props(BaseEntries)) : g \in Geometries}
    \cup {Feature(BasePoint, p) : p \in PropertyMaps}
    \cup {Feature(Geom("Polygon", <<>>), Props(<<Entry("name", Other("Array")), Entry("pop", Num(1))>>)),
          Feature(NoGeometry, NoProps)}

Collections == UNION {[1..n -> Features] : n \in 0..MaxFeatures}

\* What contents.parse::<GeoJson>() can give.
DocKinds == {"FeatureCollection", "Feature", "Geometry", "Malformed"}

\* ------------------------------------------------------------------- state
VARIABLES
    doc,        \* what the input document parses to
    features,   \* feature_collection.features
    polyline,   \* what the linked shapefile crate does with a short polyline
    pc,         \* position of the library writer (new, then write)
    err,        \* kind of the failure that ended the run, "" when none
    files,      \* output files created so far
    schema,     \* fields of the TableWriter built by build_dbf_writer
    idx,        \* 1-based index of the feature the loop of write is at
    shapes,     \* shapes written to the geometry sink, in order
    handed,     \* record maps passed to dbf_writer.write_record, in order
    rows,       \* records the attribute sink wrote, in order
    m_pc,       \* position of main
    m_err,      \* kind of the failure that ended main, "" when none
    m_idx,      \* 1-based index of the feature main's first loop is at
    geom_vec,   \* main's geom_vec
    converter,  \* main's converter.fields
    m_shapes,   \* shapes main passed to write_shapes
    m_schema,   \* fields of the TableWriter main built
    m_val,      \* 1-based val_index of main's record loop
    m_rows      \* records main's attribute sink wrote, in order

libVars == <<pc, err, files, schema, idx, shapes, handed, rows>>
inputVars == <<doc, features, polyline>>
mainVars == <<m_pc, m_err, m_idx, geom_vec, converter, m_shapes, m_schema, m_val, m_rows>>

\* ----------------------------------------------------- build_dbf_writer
\* FieldName::try_from(&prop_name[..]): a dBase field name has a fixed byte
\* budget; a longer name is an Err, which `?` returns from build_dbf_writer.
NamesTooLongForDbf == {LongName}
FieldNameTryFrom(name) == name \notin NamesTooLongForDbf

NumericField(name) == [name |-> name, type |-> "Numeric", length |-> 22, decimals |-> 20]
CharacterField(name) == [name |-> name, type |-> "Character", length |-> 255, decimals |-> 0]

\* A variant of AddFields that puts each new field in front of the others.
RECURSIVE AddFields_Prepends(_, _)
AddFields_Prepends(entries, writer) ==
    IF entries = <<>> THEN [err |-> "", fields |-> writer]
    ELSE LET e == Head(entries) IN
         CASE e.value.kind = "Number" ->
                IF FieldNameTryFrom(e.name)
                THEN AddFields_Prepends(Tail(entries), <<NumericField(e.name)>> \o writer)
                ELSE [err |-> "InvalidFieldName", fields |-> writer]
           [] e.value.kind = "String" ->
                IF FieldNameTryFrom(e.name)
                THEN AddFields_Prepends(Tail(entries), <<CharacterField(e.name)>> \o writer)
                ELSE [err |-> "InvalidFieldName", fields |-> writer]
           [] OTHER -> [err |-> "UnsupportedAttributeType", fields |-> writer]

\* The loop over the first feature's properties: one field per entry, in
\* iteration order, until an entry panics or its name is refused.
RECURSIVE AddFields(_, _)
AddFields(entries, writer) ==
    IF entries = <<>> THEN [err |-> "", fields |-> writer]
    ELSE LET e == Head(entries) IN
         CASE e.value.kind = "Number" ->
                IF FieldNameTryFrom(e.name)
                THEN AddFields(Tail(entries), Append(writer, NumericField(e.name)))
                ELSE [err |-> "InvalidFieldName", fields |-> writer]
           [] e.value.kind = "String" ->
                IF FieldNameTryFrom(e.name)
                THEN AddFields(Tail(entries), Append(writer, CharacterField(e.name)))
                ELSE [err |-> "InvalidFieldName", fields |-> writer]
           [] OTHER -> [err |-> "UnsupportedAttributeType", fields |-> writer]

\* build_dbf_writer as a whole: features[0] panics on an empty collection,
\* a first feature without properties panics, then the loop.
BuildDbfWriterResult(fs) ==
    IF Len(fs) = 0 THEN [err |-> "EmptyCollection", fields |-> <<>>]
    ELSE IF ~fs[1].properties.present THEN [err |-> "MissingProperties", fields |-> <<>>]
    ELSE AddFields(fs[1].properties.entries, <<>>)

\* --------------------------------------------------- geometry transcoding
\* (p[0], p[1]) of a position: any further coordinate is not read.
\* A variant of XY that reads the coordinates in the other order.
XY_Swapped(p) == <<p[2], p[1]>>
XY(p) == <<p[1], p[2]>>
PointShape(p) == [type |-> "Point", points |-> <<XY(p)>>]
PolylineShape(line) == [type |-> "Polyline", points |-> [i \in 1..Len(line) |-> XY(line[i])]]

\* shapefile::Polyline built from fewer than two points: the crate version
\* is not pinned in the sources, so both outcomes are kept; which one a run
\* sees is fixed by the build.
DegenerateLineOutcomes == {"panic", "pass"}

\* A variant of GeometryResult that writes an empty shape for a geometry
\* it does not transcode and goes on.
GeometryResult_KeepsGoing(g, outcome) ==
    CASE g.type = "None" -> [err |-> "MissingGeometry", shape |-> <<>>]
      [] g.type = "Point" -> [err |-> "", shape |-> PointShape(g.coords[1])]
      [] g.type = "LineString" ->
            IF Len(g.coords) < 2 /\ outcome = "panic"
            THEN [err |-> "DegenerateLine", shape |-> <<>>]
            ELSE [err |-> "", shape |-> PolylineShape(g.coords)]
      [] OTHER -> [err |-> "", shape |-> [type |-> "Null", points |-> <<>>]]

\* The match on geometry.value in write: the error that ends the run, or
\* the shape handed to shape_writer.write_shape.
GeometryResult(g, outcome) ==
    CASE g.type = "None" -> [err |-> "MissingGeometry", shape |-> <<>>]
      [] g.type = "Point" -> [err |-> "", shape |-> PointShape(g.coords[1])]
      [] g.type = "LineString" ->
            IF Len(g.coords) < 2 /\ outcome = "panic"
            THEN [err |-> "DegenerateLine", shape |-> <<>>]
            ELSE [err |-> "", shape |-> PolylineShape(g.coords)]
      [] OTHER -> [err |-> "UnsupportedGeometryType", shape |-> <<>>]

\* ------------------------------------------------------- record assembly
NumericValue(v) == [type |-> "Numeric", some |-> TRUE, num |-> v.num, str |-> ""]
\* A variant of CharacterValue that stores the JSON text of the string.
CharacterValue_Quoted(v) ==
    [type |-> "Character", some |-> TRUE, num |-> 0, str |-> "\"" \o v.str \o "\""]
CharacterValue(v) == [type |-> "Character", some |-> TRUE, num |-> 0, str |-> v.str]
EmptyRecord == [n \in {} |-> 0]

\* A variant of InsertAll that passes over a value that is no Number or
\* String instead of stopping the run.
RECURSIVE InsertAll_SkipsUnsupported(_, _)
InsertAll_SkipsUnsupported(entries, record) ==
    IF entries = <<>> THEN [err |-> "", record |-> record]
    ELSE LET e == Head(entries) IN
         CASE e.value.kind = "Number" ->
                InsertAll_SkipsUnsupported(Tail(entries), (e.name :> NumericValue(e.value)) @@ record)
           [] e.value.kind = "String" ->
                InsertAll_SkipsUnsupported(Tail(entries), (e.name :> CharacterValue(e.value)) @@ record)
           [] OTHER -> InsertAll_SkipsUnsupported(Tail(entries), record)

\* A variant of InsertAll that leaves String values out of the record.
RECURSIVE InsertAll_SkipsStrings(_, _)
InsertAll_SkipsStrings(entries, record) ==
    IF entries = <<>> THEN [err |-> "", record |-> record]
    ELSE LET e == Head(entries) IN
         CASE e.value.kind = "Number" ->
                InsertAll_SkipsStrings(Tail(entries), (e.name :> NumericValue(e.value)) @@ record)
           [] e.value.kind = "String" -> InsertAll_SkipsStrings(Tail(entries), record)
           [] OTHER -> [err |-> "UnsupportedAttributeType", record |-> record]

\* The loop filling shapefile::dbase::Record (a map by name) from every
\* property of the feature; any value that is no Number or String panics.
RECURSIVE InsertAll(_, _)
InsertAll(entries, record) ==
    IF entries = <<>> THEN [err |-> "", record |-> record]
    ELSE LET e == Head(entries) IN
         CASE e.value.kind = "Number" ->
                InsertAll(Tail(entries), (e.name :> NumericValue(e.value)) @@ record)
           [] e.value.kind = "String" ->
                InsertAll(Tail(entries), (e.name :> CharacterValue(e.value)) @@ record)
           [] OTHER -> [err |-> "UnsupportedAttributeType", record |-> record]

\* A variant of WriteFields that writes whatever value the map holds under
\* the field's name, without comparing its type with the field's.
RECURSIVE WriteFields_Unchecked(_, _, _)
WriteFields_Unchecked(fields, record, row) ==
    IF fields = <<>> THEN [err |-> "", row |-> row]
    ELSE LET f == Head(fields) IN
         IF f.name \notin DOMAIN record THEN [err |-> "MissingAttribute", row |-> row]
         ELSE WriteFields_Unchecked(Tail(fields), record,
                                    Append(row, [name |-> f.name, value |-> record[f.name]]))

\* TableWriter::write_record on a Record: for each field of the schema, in
\* order, the value under the field's name; a name the map lacks and a value
\* of another type than the field's are errors (which write turns into a
\* panic by .expect). Entries of the map that name no field are not read.
RECURSIVE WriteFields(_, _, _)
WriteFields(fields, record, row) ==
    IF fields = <<>> THEN [err |-> "", row |-> row]
    ELSE LET f == Head(fields) IN
         IF f.name \notin DOMAIN record THEN [err |-> "MissingAttribute", row |-> row]
         ELSE IF record[f.name].type # f.type THEN [err |-> "AttributeTypeMismatch", row |-> row]
         ELSE WriteFields(Tail(fields), record, Append(row, [name |-> f.name, value |-> record[f.name]]))

\* A variant of the sink that refuses a record map holding a name that is
\* no field of the schema.
SinkWriteRecord_Strict(fields, record) ==
    IF \E n \in DOMAIN record : \A j \in 1..Len(fields) : fields[j].name # n
    THEN [err |-> "MissingAttribute", row |-> <<>>]
    ELSE WriteFields(fields, record, <<>>)

SinkWriteRecord(fields, record) == WriteFields(fields, record, <<>>)

\* ---------------------------------------------------------------- actions
Fail(kind) == pc' = "failed" /\ err' = kind

Init ==
    /\ polyline \in DegenerateLineOutcomes
    /\ doc \in DocKinds
    /\ features \in Collections
    /\ (doc # "FeatureCollection" => features = <<>>)
    /\ pc = "parse"
    /\ err = ""
    /\ files = {}
    /\ schema = <<>>
    /\ idx = 1
    /\ shapes = <<>>
    /\ handed = <<>>
    /\ rows = <<>>
    /\ m_pc = "read"
    /\ m_err = ""
    /\ m_idx = 1
    /\ geom_vec = <<>>
    /\ converter = <<>>
    /\ m_shapes = <<>>
    /\ m_schema = <<>>
    /\ m_val = 1
    /\ m_rows = <<>>

\* new: contents.parse::<GeoJson>()? and the match on the root.
Parse ==
    /\ pc = "parse"
    /\ CASE doc = "Malformed" -> Fail("ParseError")
         [] doc \in {"Feature", "Geometry"} -> Fail("NotAFeatureCollection")
         [] OTHER -> pc' = "open_shape_writer" /\ err' = err
    /\ UNCHANGED <<files, schema, idx, shapes, handed, rows, inputVars, mainVars>>

\* new: File::create of .shp and .shx, ShapeWriter::with_shx.
OpenShapeWriter ==
    /\ pc = "open_shape_writer"
    /\ files' = files \cup {"shp", "shx"}
    /\ pc' = "build_dbf_writer"
    /\ UNCHANGED <<err, schema, idx, shapes, handed, rows, inputVars, mainVars>>

\* A variant of BuildDbfWriter that creates the .dbf before it looks at the
\* first feature.
BuildDbfWriter_CreatesFirst ==
    /\ pc = "build_dbf_writer"
    /\ files' = files \cup {"dbf"}
    /\ LET r == BuildDbfWriterResult(features) IN
       IF r.err # ""
       THEN Fail(r.err) /\ UNCHANGED schema
       ELSE /\ schema' = r.fields
            /\ pc' = "geometry"
            /\ err' = err
    /\ UNCHANGED <<idx, shapes, handed, rows, inputVars, mainVars>>

\* new: build_dbf_writer(filepath, &feature_collection)? and Ok(Self).
BuildDbfWriter ==
    /\ pc = "build_dbf_writer"
    /\ LET r == BuildDbfWriterResult(features) IN
       IF r.err # ""
       THEN Fail(r.err) /\ UNCHANGED <<files, schema>>
       ELSE /\ schema' = r.fields
            /\ files' = files \cup {"dbf"}
            /\ pc' = "geometry"
            /\ err' = err
    /\ UNCHANGED <<idx, shapes, handed, rows, inputVars, mainVars>>

\* A variant of WriteGeometry that passes over a feature whose geometry is
\* absent and goes on with the next feature.
WriteGeometry_SkipsMissing ==
    /\ pc = "geometry"
    /\ idx <= Len(features)
    /\ LET r == GeometryResult(features[idx].geometry, polyline) IN
       IF r.err = "MissingGeometry"
       THEN /\ idx' = idx + 1
            /\ UNCHANGED <<pc, err, shapes>>
       ELSE IF r.err # ""
       THEN Fail(r.err) /\ UNCHANGED <<shapes, idx>>
       ELSE /\ shapes' = Append(shapes, r.shape)
            /\ pc' = "properties"
            /\ err' = err
            /\ idx' = idx
    /\ UNCHANGED <<files, schema, handed, rows, inputVars, mainVars>>

\* A variant of WriteGeometry that goes on to the next feature once the
\* shape is written, leaving the feature's record unwritten.
WriteGeometry_SkipsRecord ==
    /\ pc = "geometry"
    /\ idx <= Len(features)
    /\ LET r == GeometryResult(features[idx].geometry, polyline) IN
       IF r.err # ""
       THEN Fail(r.err) /\ UNCHANGED <<shapes, idx>>
       ELSE /\ shapes' = Append(shapes, r.shape)
            /\ idx' = idx + 1
            /\ pc' = pc
            /\ err' = err
    /\ UNCHANGED <<files, schema, handed, rows, inputVars, mainVars>>

\* write, first half of the loop body: the feature's geometry.
WriteGeometry ==
    /\ pc = "geometry"
    /\ idx <= Len(features)
    /\ LET r == GeometryResult(features[idx].geometry, polyline) IN
       IF r.err # ""
       THEN Fail(r.err) /\ UNCHANGED shapes
       ELSE /\ shapes' = Append(shapes, r.shape)
            /\ pc' = "properties"
            /\ err' = err
    /\ UNCHANGED <<files, schema, idx, handed, rows, inputVars, mainVars>>

\* write, second half of the loop body: the feature's properties, the
\* record built from them, dbf_writer.write_record(&record).
WriteRecord ==
    /\ pc = "properties"
    /\ LET p == features[idx].properties
           b == InsertAll(p.entries, EmptyRecord)
           w == SinkWriteRecord(schema, b.record)
       IN
       IF ~p.present THEN Fail("MissingProperties") /\ UNCHANGED <<handed, rows, idx>>
       ELSE IF b.err # "" THEN Fail(b.err) /\ UNCHANGED <<handed, rows, idx>>
       ELSE /\ handed' = Append(handed, b.record)
            /\ IF w.err # ""
               THEN Fail(w.err) /\ UNCHANGED <<rows, idx>>
               ELSE /\ rows' = Append(rows, w.row)
                    /\ idx' = idx + 1
                    /\ pc' = "geometry" /\ err' = err
    /\ UNCHANGED <<files, schema, shapes, inputVars, mainVars>>

\* write: the iterator is exhausted, Ok(()).
Finish ==
    /\ pc = "geometry"
    /\ idx > Len(features)
    /\ pc' = "completed"
    /\ UNCHANGED <<err, files, schema, idx, shapes, handed, rows, inputVars, mainVars>>

\* ------------------------------------------------------- main (binary)
\* Converter::get_index: the position of the field of that name, 0 for None.
get_index(fs, field_name) ==
    IF \E i \in 1..Len(fs) : fs[i].field_name = field_name
    THEN CHOOSE i \in 1..Len(fs) :
            /\ fs[i].field_name = field_name
            /\ \A j \in 1..(i - 1) : fs[j].field_name # field_name
    ELSE 0

\* Converter::insert_field: a new, empty field list unless the name has one.
insert_field(fs, field_name) ==
    IF get_index(fs, field_name) # 0 THEN fs
    ELSE Append(fs, [field_name |-> field_name, values |-> <<>>])

\* Converter::insert_val: the value is pushed on the field list of its name.
insert_val(fs, field_name, value) ==
    LET withField == insert_field(fs, field_name)
        i == get_index(withField, field_name)
    IN [withField EXCEPT ![i].values = Append(@, value)]

\* main's loop over one feature's properties.
RECURSIVE CollectProps(_, _)
CollectProps(entries, fs) ==
    IF entries = <<>> THEN [err |-> "", fields |-> fs]
    ELSE LET e == Head(entries) IN
         IF e.value.kind \in {"Number", "String"}
         THEN CollectProps(Tail(entries),
                           insert_val(insert_field(fs, e.name), e.name, e.value))
         ELSE [err |-> "UnsupportedAttributeType", fields |-> fs]

\* main's build_dbf_writer: one field per field list, typed by values[0].
RECURSIVE MainAddFields(_, _)
MainAddFields(fs, writer) ==
    IF fs = <<>> THEN [err |-> "", fields |-> writer]
    ELSE LET f == Head(fs) IN
         CASE f.values[1].kind = "Number" ->
                IF FieldNameTryFrom(f.field_name)
                THEN MainAddFields(Tail(fs), Append(writer, NumericField(f.field_name)))
                ELSE [err |-> "InvalidFieldName", fields |-> writer]
           [] f.values[1].kind = "String" ->
                IF FieldNameTryFrom(f.field_name)
                THEN MainAddFields(Tail(fs), Append(writer, CharacterField(f.field_name)))
                ELSE [err |-> "InvalidFieldName", fields |-> writer]
           [] OTHER -> [err |-> "UnsupportedAttributeType", fields |-> writer]

\* val.to_string() of a serde_json::Value that is a string: its JSON text,
\* quotes included.
QuotedCharacterValue(v) ==
    [type |-> "Character", some |-> TRUE, num |-> 0, str |-> "\"" \o v.str \o "\""]

\* main's inner loop: the record of row val_index, one entry per field
\* list; a field list shorter than val_index panics on the index.
RECURSIVE MainInsertAll(_, _, _)
MainInsertAll(fs, val_index, record) ==
    IF fs = <<>> THEN [err |-> "", record |-> record]
    ELSE LET f == Head(fs) IN
         IF Len(f.values) < val_index THEN [err |-> "IndexOutOfBounds", record |-> record]
         ELSE LET val == f.values[val_index] IN
              CASE val.kind = "Number" ->
                     MainInsertAll(Tail(fs), val_index, (f.field_name :> NumericValue(val)) @@ record)
                [] val.kind = "String" ->
                     MainInsertAll(Tail(fs), val_index,
                                   (f.field_name :> QuotedCharacterValue(val)) @@ record)
                [] OTHER -> [err |-> "UnsupportedAttributeType", record |-> record]

MainFail(kind) == m_pc' = "failed" /\ m_err' = kind

\* read_geojson(..).expect(..) and the match on the root.
MainRead ==
    /\ m_pc = "read"
    /\ CASE doc = "Malformed" -> MainFail("ParseError")
         [] doc \in {"Feature", "Geometry"} -> MainFail("NotAFeatureCollection")
         [] OTHER -> m_pc' = "collect" /\ m_err' = m_err
    /\ UNCHANGED <<m_idx, geom_vec, converter, m_shapes, m_schema, m_val, m_rows, inputVars, libVars>>

\* One pass of the loop over collection.features: the match on the
\* geometry (only a Point is pushed on geom_vec, every other variant is
\* printed), then the match on the properties.
MainCollect ==
    /\ m_pc = "collect"
    /\ m_idx <= Len(features)
    /\ LET f == features[m_idx]
           c == CollectProps(f.properties.entries, converter)
       IN
       IF f.geometry.type = "None"
       THEN MainFail("MissingGeometry") /\ UNCHANGED <<geom_vec, converter, m_idx>>
       ELSE /\ geom_vec' = IF f.geometry.type = "Point"
                           THEN Append(geom_vec, PointShape(f.geometry.coords[1]))
                           ELSE geom_vec
            /\ IF ~f.properties.present
               THEN UNCHANGED <<converter, m_pc, m_err>> /\ m_idx' = m_idx + 1
               ELSE IF c.err # ""
               THEN MainFail(c.err) /\ UNCHANGED <<converter, m_idx>>
               ELSE converter' = c.fields /\ m_idx' = m_idx + 1 /\ UNCHANGED <<m_pc, m_err>>
    /\ UNCHANGED <<m_shapes, m_schema, m_val, m_rows, inputVars, libVars>>

\* write_shapes("./fixtures/garbage_out", &geom_vec).
MainWriteShapes ==
    /\ m_pc = "collect"
    /\ m_idx > Len(features)
    /\ m_shapes' = geom_vec
    /\ m_pc' = "build_dbf_writer"
    /\ UNCHANGED <<m_err, m_idx, geom_vec, converter, m_schema, m_val, m_rows, inputVars, libVars>>

\* build_dbf_writer("fixtures/garbage_out", converter.clone().fields).expect(..).
MainBuildDbfWriter ==
    /\ m_pc = "build_dbf_writer"
    /\ LET r == MainAddFields(converter, <<>>) IN
       IF r.err # ""
       THEN MainFail(r.err) /\ UNCHANGED m_schema
       ELSE m_schema' = r.fields /\ m_pc' = "records" /\ m_err' = m_err
    /\ UNCHANGED <<m_idx, geom_vec, converter, m_shapes, m_val, m_rows, inputVars, libVars>>

\* One pass of the loop over 0..converter.fields[0].values.len(): the
\* record of that row and writer.write_record(&record).expect(..).
MainWriteRecord ==
    /\ m_pc = "records"
    /\ IF converter = <<>> THEN TRUE ELSE m_val <= Len(converter[1].values)
    /\ IF converter = <<>>
       THEN MainFail("IndexOutOfBounds") /\ UNCHANGED <<m_rows, m_val>>
       ELSE LET b == MainInsertAll(converter, m_val, EmptyRecord)
                w == SinkWriteRecord(m_schema, b.record)
            IN
            IF b.err # "" THEN MainFail(b.err) /\ UNCHANGED <<m_rows, m_val>>
            ELSE IF w.err # "" THEN MainFail(w.err) /\ UNCHANGED <<m_rows, m_val>>
            ELSE /\ m_rows' = Append(m_rows, w.row)
                 /\ m_val' = m_val + 1
                 /\ UNCHANGED <<m_pc, m_err>>
    /\ UNCHANGED <<m_idx, geom_vec, converter, m_shapes, m_schema, inputVars, libVars>>

\* The record loop is exhausted: main returns.
MainDone ==
    /\ m_pc = "records"
    /\ converter # <<>>
    /\ m_val > Len(converter[1].values)
    /\ m_pc' = "done"
    /\ UNCHANGED <<m_err, m_idx, geom_vec, converter, m_shapes, m_schema, m_val, m_rows,
                   inputVars, libVars>>

vars == <<doc, features, polyline, pc, err, files, schema, idx, shapes, handed, rows,
         m_pc, m_err, m_idx, geom_vec, converter, m_shapes, m_schema, m_val, m_rows>>

Next ==
    \/ Parse
    \/ OpenShapeWriter
    \/ BuildDbfWriter
    \/ WriteGeometry
    \/ WriteRecord
    \/ Finish

Spec == Init /\ [][Next]_vars

NextMain ==
    \/ MainRead
    \/ MainCollect
    \/ MainWriteShapes
    \/ MainBuildDbfWriter
    \/ MainWriteRecord
    \/ MainDone

SpecMain == Init /\ [][NextMain]_vars

\* The states of the conversion driver, read off the writer's position.
DriverState ==
    CASE pc \in {"parse", "open_shape_writer", "build_dbf_writer"} -> "Initialized"
      [] pc \in {"geometry", "properties"} -> "Converting"
      [] pc = "completed" -> "Completed"
      [] OTHER -> "Failed"

TypeOK ==
    /\ pc \in {"parse", "open_shape_writer", "build_dbf_writer", "geometry", "properties",
               "completed", "failed"}
    /\ files \subseteq {"shp", "shx", "dbf"}
    /\ idx \in 1..(Len(features) + 1)
    /\ Len(rows) <= Len(shapes)

\* ======================================================== claims
\* Vocabulary of the claims, stated on the input alone.
EntriesOf(f) == f.properties.entries
NamesOf(f) == {EntriesOf(f)[j].name : j \in 1..Len(EntriesOf(f))}
ValueOfAttr(f, n) ==
    EntriesOf(f)[CHOOSE j \in 1..Len(EntriesOf(f)) : EntriesOf(f)[j].name = n].value
KindOfAttr(f, n) == ValueOfAttr(f, n).kind
Terminal == pc \in {"completed", "failed"}

\* Every feature has a Point or LineString geometry, the attribute names of
\* the first feature, and per attribute the first feature's Number or String
\* kind.
UniformCollection ==
    /\ doc = "FeatureCollection"
    /\ Len(features) >= 1
    /\ \A i \in 1..Len(features) :
        /\ features[i].geometry.type \in {"Point", "LineString"}
        /\ features[i].properties.present
        /\ NamesOf(features[i]) = NamesOf(features[1])
        /\ \A n \in NamesOf(features[i]) :
            /\ KindOfAttr(features[i], n) \in {"Number", "String"}
            /\ KindOfAttr(features[i], n) = KindOfAttr(features[1], n)

CountsAgree == Len(shapes) = Len(features) /\ Len(rows) = Len(features)

NamesFitDbf == \A i \in 1..Len(features) : \A n \in NamesOf(features[i]) : FieldNameTryFrom(n)
LinesHaveTwoPositions ==
    \A i \in 1..Len(features) :
        features[i].geometry.type = "LineString" => Len(features[i].geometry.coords) >= 2

TypeOfKind(k) == IF k = "Number" THEN "Numeric" ELSE "Character"
C2_ColumnsAreFirstFeatures ==
    "dbf" \in files =>
        /\ Len(features) >= 1
        /\ Len(schema) = Len(EntriesOf(features[1]))
        /\ \A j \in 1..Len(schema) :
            /\ schema[j].name = EntriesOf(features[1])[j].name
            /\ EntriesOf(features[1])[j].value.kind \in {"Number", "String"}
            /\ schema[j].type = TypeOfKind(EntriesOf(features[1])[j].value.kind)

C2_Witness ==
    /\ pc = "completed"
    /\ Len(features) = 2
    /\ Len(schema) = 2
    /\ schema[1].type # schema[2].type
    /\ [j \in 1..Len(EntriesOf(features[2])) |-> EntriesOf(features[2])[j].name]
         # [j \in 1..Len(schema) |-> schema[j].name]

\* C3: on a collection of N Point features whose properties are exactly
\* {name: String, pop: Number}, the run does not fail, at completion the
\* attribute sink holds exactly N records, and the i-th record written (and
\* the i-th record map handed to the sink) carries the name and the pop of
\* the i-th feature.
NamePopCollection ==
    /\ doc = "FeatureCollection"
    /\ \A i \in 1..Len(features) :
        /\ features[i].geometry.type = "Point"
        /\ features[i].properties.present
        /\ Len(EntriesOf(features[i])) = 2
        /\ NamesOf(features[i]) = {"name", "pop"}
        /\ KindOfAttr(features[i], "name") = "String"
        /\ KindOfAttr(features[i], "pop") = "Number"

RowValue(row, n) == row[CHOOSE j \in 1..Len(row) : row[j].name = n].value

C3_RoundTrip ==
    (NamePopCollection /\ Len(features) >= 1) =>
        /\ pc # "failed"
        /\ (pc = "completed" => Len(rows) = Len(features))
        /\ Len(rows) <= Len(features)
        /\ \A i \in 1..Len(rows) :
            /\ {rows[i][j].name : j \in 1..Len(rows[i])} = {"name", "pop"}
            /\ RowValue(rows[i], "name").type = "Character"
            /\ RowValue(rows[i], "name").str = ValueOfAttr(features[i], "name").str
            /\ RowValue(rows[i], "pop").type = "Numeric"
            /\ RowValue(rows[i], "pop").some
            /\ RowValue(rows[i], "pop").num = ValueOfAttr(features[i], "pop").num
            /\ handed[i]["name"].str = ValueOfAttr(features[i], "name").str
            /\ handed[i]["pop"].num = ValueOfAttr(features[i], "pop").num

C3_Witness ==
    /\ NamePopCollection
    /\ pc = "completed"
    /\ Len(rows) = 2
    /\ ValueOfAttr(features[1], "name") # ValueOfAttr(features[2], "name")
    /\ ValueOfAttr(features[1], "pop") # ValueOfAttr(features[2], "pop")

\* The schema columns a feature's property map lacks, and whether the map
\* holds a name that is no schema column.
SchemaNames == {schema[j].name : j \in 1..Len(schema)}
LacksColumn(f) == \E n \in SchemaNames : n \notin NamesOf(f)
HasExtraAttribute(f) ==
    /\ f.properties.present
    /\ SchemaNames \subseteq NamesOf(f)
    /\ NamesOf(f) # SchemaNames
KindsMatchSchema(f) ==
    \A j \in 1..Len(schema) :
        schema[j].name \in NamesOf(f) => TypeOfKind(KindOfAttr(f, schema[j].name)) = schema[j].type
AllValuesSupported(f) == \A n \in NamesOf(f) : KindOfAttr(f, n) \in {"Number", "String"}
InWrite == "dbf" \in files

C5_UnsupportedGeometryFails ==
    /\ \A i \in 1..Len(features) :
        features[i].geometry.type \in UnsupportedGeometryKinds =>
            /\ pc # "completed"
            /\ Len(shapes) < i
            /\ Len(handed) < i
            /\ Len(rows) < i
            /\ (InWrite /\ idx = i) => (pc \in {"geometry", "failed"})
            /\ (InWrite /\ idx = i /\ pc = "failed") => err = "UnsupportedGeometryType"
    /\ err = "UnsupportedGeometryType" =>
            /\ pc = "failed"
            /\ features[idx].geometry.type \in UnsupportedGeometryKinds
            /\ Len(shapes) = idx - 1
            /\ Len(rows) = idx - 1

C5_Witness ==
    /\ pc = "failed"
    /\ err = "UnsupportedGeometryType"
    /\ idx = 2
    /\ Len(shapes) = 1
    /\ Len(rows) = 1

\* A feature with a property value that is an Array, an Object, a Boolean
\* or Null.
HasUnsupportedValue(f) ==
    \E j \in 1..Len(EntriesOf(f)) : EntriesOf(f)[j].value.kind \in UnsupportedValueKinds

\* C6 as stated: such a feature, at any position, keeps the run from
\* completing, and nothing is written to either sink for it: no shape and
\* no attribute record.
C6_AsStated ==
    \A i \in 1..Len(features) :
        HasUnsupportedValue(features[i]) =>
            /\ pc # "completed"
            /\ Len(shapes) < i
            /\ Len(rows) < i

\* C6, amended: such a feature, at any position, keeps the run from
\* completing, and no attribute record is written (or handed to the sink)
\* for it. As the first feature it fails new: nothing is written to either
\* sink and no .dbf is created. As a later feature it is rejected in write
\* after its geometry was handled: when the rejection happens its shape has
\* already been written to the geometry sink.
C6_UnsupportedValueFails ==
    /\ \A i \in 1..Len(features) :
        HasUnsupportedValue(features[i]) =>
            /\ pc # "completed"
            /\ Len(rows) < i
            /\ Len(handed) < i
            /\ (i = 1 => shapes = <<>> /\ "dbf" \notin files)
            /\ (InWrite /\ idx = i /\ pc = "failed") =>
                    err \in {"UnsupportedAttributeType", "MissingGeometry",
                             "UnsupportedGeometryType", "DegenerateLine"}
    /\ (err = "UnsupportedAttributeType" /\ InWrite) =>
            /\ pc = "failed"
            /\ idx > 1
            /\ HasUnsupportedValue(features[idx])
            /\ Len(shapes) = idx
            /\ Len(rows) = idx - 1
    /\ (err = "UnsupportedAttributeType" /\ ~InWrite) =>
            /\ pc = "failed"
            /\ HasUnsupportedValue(features[1])
            /\ shapes = <<>> /\ rows = <<>>

C6_Witness ==
    /\ pc = "failed"
    /\ err = "UnsupportedAttributeType"
    /\ InWrite
    /\ idx = 2
    /\ Len(shapes) = 2
    /\ Len(rows) = 1

\* C7: the i-th shape written is the transcoding of the i-th feature's
\* geometry: a LineString of k >= 2 positions gives a polyline of exactly k
\* vertices, the j-th being the first two coordinates of the j-th position;
\* a Point gives a point shape carrying the first two coordinates of its
\* position.
C7_Transcoding ==
    \A i \in 1..Len(shapes) :
        LET g == features[i].geometry IN
        /\ g.type = "Point" =>
            /\ shapes[i].type = "Point"
            /\ shapes[i].points = <<<<g.coords[1][1], g.coords[1][2]>>>>
        /\ (g.type = "LineString" /\ Len(g.coords) >= 2) =>
            /\ shapes[i].type = "Polyline"
            /\ Len(shapes[i].points) = Len(g.coords)
            /\ \A j \in 1..Len(g.coords) :
                shapes[i].points[j] = <<g.coords[j][1], g.coords[j][2]>>

C7_Witness ==
    /\ pc = "completed"
    /\ \E i \in 1..Len(shapes) :
        /\ shapes[i].type = "Polyline"
        /\ Len(shapes[i].points) >= 3
        /\ \E j \in 1..Len(features[i].geometry.coords) : Len(features[i].geometry.coords[j]) = 3
    /\ \E i \in 1..Len(shapes) :
        /\ shapes[i].type = "Point"
        /\ Len(features[i].geometry.coords[1]) = 3

\* C8 as stated, for main: a feature whose geometry main does not transcode
\* (MultiPoint, MultiLineString, Polygon, MultiPolygon, GeometryCollection)
\* fails the run, so main never returns normally with such a feature in the
\* collection, and when main returns the shapes passed to write_shapes and
\* the attribute records written are equally many.
C8_MainRejectsUnsupported ==
    m_pc = "done" =>
        /\ \A i \in 1..Len(features) :
              features[i].geometry.type \notin UnsupportedGeometryKinds
        /\ Len(m_shapes) = Len(m_rows)

\* A record map conforms exactly to the schema: the names are the columns,
\* no more and no fewer, and each value has the type of its column.
ConformsExactly(record) ==
    /\ DOMAIN record = SchemaNames
    /\ Cardinality(DOMAIN record) = Len(schema)
    /\ \A j \in 1..Len(schema) : record[schema[j].name].type = schema[j].type

\* C9 as stated: every record write hands to the attribute sink conforms
\* exactly to the frozen schema, and a feature that lacks a schema column
\* or holds a value of another kind than the column's never has a record
\* handed to the sink.
C9_AsStated ==
    \A i \in 1..Len(handed) :
        /\ ConformsExactly(handed[i])
        /\ ~LacksColumn(features[i])
        /\ KindsMatchSchema(features[i])

\* C9, amended: every record the attribute sink writes conforms exactly to
\* the frozen schema: the same number of columns, the same names in the same
\* order, each value of the column's type and taken from the feature's
\* attribute of that name. The map write hands to the sink holds every
\* property of the feature, so it may hold further names or a value of
\* another type; a feature that lacks a schema column or holds a value of
\* another kind than the column's has its map handed to the sink and
\* refused: no record is written for it and the run fails.
C9_WrittenRecordsConform ==
    /\ Len(rows) <= Len(handed)
    /\ \A i \in 1..Len(rows) :
        /\ Len(rows[i]) = Len(schema)
        /\ \A j \in 1..Len(schema) :
            /\ rows[i][j].name = schema[j].name
            /\ rows[i][j].value.type = schema[j].type
            /\ rows[i][j].value = handed[i][schema[j].name]
            /\ rows[i][j].value.num = ValueOfAttr(features[i], schema[j].name).num
            /\ rows[i][j].value.str = ValueOfAttr(features[i], schema[j].name).str
    /\ \A i \in 1..Len(handed) :
        /\ DOMAIN handed[i] = NamesOf(features[i])
        /\ (LacksColumn(features[i]) \/ ~KindsMatchSchema(features[i])) =>
              /\ Len(rows) < i
              /\ pc = "failed"
              /\ err \in {"MissingAttribute", "AttributeTypeMismatch"}

C9_Witness ==
    /\ Len(handed) = 2
    /\ Len(rows) = 1
    /\ Len(schema) = 2
    /\ ~LacksColumn(features[2])
    /\ ~KindsMatchSchema(features[2])
    /\ err = "AttributeTypeMismatch"

\* new failed in build_dbf_writer on an empty collection, a first feature
\* without properties or a first feature with an unsupported value.
NewFailedOnFirstFeature ==
    /\ pc = "failed"
    /\ ~InWrite
    /\ err \in {"EmptyCollection", "MissingProperties", "UnsupportedAttributeType"}

ShapeOfGeometry(g) ==
    [type |-> IF g.type = "Point" THEN "Point" ELSE "Polyline",
     points |-> [j \in 1..Len(g.coords) |-> <<g.coords[j][1], g.coords[j][2]>>]]

\* In every state the i-th shape is that of the i-th feature's geometry, the
\* i-th record holds the i-th feature's attribute values, and the shapes
\* written are as many as the records written or one more.
LockStepState ==
    /\ Len(rows) <= Len(shapes)
    /\ Len(shapes) <= Len(rows) + 1
    /\ Len(shapes) <= Len(features)
    /\ \A i \in 1..Len(shapes) :
        /\ features[i].geometry.type \in {"Point", "LineString"}
        /\ shapes[i] = ShapeOfGeometry(features[i].geometry)
    /\ \A i \in 1..Len(rows) :
        \A j \in 1..Len(rows[i]) :
            /\ rows[i][j].name \in NamesOf(features[i])
            /\ rows[i][j].value.num = ValueOfAttr(features[i], rows[i][j].name).num
            /\ rows[i][j].value.str = ValueOfAttr(features[i], rows[i][j].name).str

\* A step writes at most one thing: a shape, and then the records written
\* are as many as the shapes written before it (the record of the feature
\* before is in the sink), or a record, and then the shapes written are one
\* more than the records written before it (the shape of the same feature is
\* in the sink).
LockStepStep ==
    /\ shapes' # shapes =>
          /\ Len(shapes') = Len(shapes) + 1
          /\ SubSeq(shapes', 1, Len(shapes)) = shapes
          /\ rows' = rows
          /\ Len(rows) = Len(shapes)
          /\ idx = Len(shapes) + 1
    /\ rows' # rows =>
          /\ Len(rows') = Len(rows) + 1
          /\ SubSeq(rows', 1, Len(rows)) = rows
          /\ shapes' = shapes
          /\ Len(shapes) = Len(rows) + 1
          /\ idx = Len(shapes)

\* C11: write handles the features in collection order, for each feature the
\* shape before the record, and the record of a feature before the shape of
\* the next; so in every reachable state, a failed one included, the i-th
\* shape and the i-th record come from the i-th feature and the shapes
\* written exceed the records written by 0 or 1.
C11_LockStep == [](LockStepState) /\ [][LockStepStep]_vars

C11_Witness ==
    /\ pc = "failed"
    /\ Len(shapes) = 2
    /\ Len(rows) = 1
    /\ shapes[1] # shapes[2]
    /\ features[1].properties # features[2].properties

\* The failures of write's loop body on a feature, told from the input
\* alone: of its first half (the geometry) and of its second half (the
\* property map, a value of it, or the attribute sink refusing the record).
GeometryFails(f) ==
    \/ f.geometry.type = "None"
    \/ f.geometry.type \in UnsupportedGeometryKinds
PropertiesFail(f) ==
    \/ ~f.properties.present
    \/ HasUnsupportedValue(f)
    \/ LacksColumn(f)
    \/ ~KindsMatchSchema(f)
WriteFailures ==
    {"MissingGeometry", "UnsupportedGeometryType", "DegenerateLine", "MissingProperties",
     "UnsupportedAttributeType", "MissingAttribute", "AttributeTypeMismatch"}

\* Once write runs: a feature that fails keeps the run from completing, the
\* run never moves past it, no shape of a later feature and no record of it
\* or of a later feature is in the sinks; a failed run holds the shapes and
\* records of the features before the one it failed on, whole, and at most
\* the shape of that one.
FailFastState ==
    InWrite =>
        /\ \A i \in 1..Len(features) :
            /\ (GeometryFails(features[i]) \/ PropertiesFail(features[i])) =>
                  /\ pc # "completed"
                  /\ idx <= i
                  /\ Len(shapes) <= i
                  /\ Len(rows) < i
            /\ GeometryFails(features[i]) => Len(shapes) < i
        /\ pc = "failed" =>
              /\ err \in WriteFailures
              /\ idx <= Len(features)
              /\ Len(rows) = idx - 1
              /\ Len(shapes) \in {idx - 1, idx}
              /\ \A i \in 1..(idx - 1) :
                    ~GeometryFails(features[i]) /\ ~PropertiesFail(features[i])
              /\ (err \in {"MissingGeometry", "UnsupportedGeometryType"}
                    <=> GeometryFails(features[idx]))
              /\ (err \in {"MissingProperties", "UnsupportedAttributeType",
                           "MissingAttribute", "AttributeTypeMismatch"}
                    <=> (~GeometryFails(features[idx]) /\ Len(shapes) = idx
                         /\ PropertiesFail(features[idx])))

\* The step that handles the failing half of a feature ends the run as
\* failed and writes nothing; no step takes anything out of a sink or
\* alters what is in it; a failed run takes no further step that changes
\* its state or the sinks.
FailFastStep ==
    /\ (InWrite /\ pc = "geometry" /\ idx <= Len(features) /\ GeometryFails(features[idx])) =>
          pc' = "failed" /\ shapes' = shapes /\ rows' = rows
    /\ (InWrite /\ pc = "properties" /\ PropertiesFail(features[idx])) =>
          pc' = "failed" /\ shapes' = shapes /\ rows' = rows
    /\ Len(shapes') >= Len(shapes) /\ SubSeq(shapes', 1, Len(shapes)) = shapes
    /\ Len(rows') >= Len(rows) /\ SubSeq(rows', 1, Len(rows)) = rows
    /\ pc = "failed" =>
          pc' = "failed" /\ err' = err /\ shapes' = shapes /\ rows' = rows /\ files' = files

\* C12: a failure while write handles feature i (absent or unsupported
\* geometry, absent property map, unsupported or mismatched property value,
\* a record the attribute sink refuses) makes the run failed for good; no
\* shape or record of a later feature is ever written, the shapes and
\* records of the features before i stay in the sinks as written, and a
\* feature with absent geometry or absent properties is never passed over
\* with the run going on.
C12_FailFast == [](FailFastState) /\ [][FailFastStep]_vars

C12_Witness ==
    /\ pc = "failed"
    /\ err = "MissingProperties"
    /\ idx = 2
    /\ Len(features) = 2
    /\ Len(shapes) = 2
    /\ Len(rows) = 1
    /\ rows[1] # <<>>

====
